---- MODULE Spec2Model ----
(***************************************************************************)
(* Model of the Zygosity VCF pipeline: the six filters of filteration.py   *)
(* and process_vcf_file / calc_zygosity of zygosity.py.                    *)
(*                                                                         *)
(* Strings are sequences of one-character strings, so that regex search,   *)
(* split, strip, startswith, substring tests and int()/float() parsing are *)
(* computed character by character.  Python values are tagged records      *)
(* [type, v]; floats are held in fixed point with one decimal place        *)
(* (v = 10 * value), and the row pool and thresholds keep to one decimal.  *)
(***************************************************************************)
EXTENDS Integers, Sequences, FiniteSets, TLC

\* df: the table process_vcf_file holds; pc: the stage to run next; exc: the
\* exception that ended the call; variants: the counts of calc_zygosity.
\* History: prev is the table the last stage was given, last is that stage
\* with its arguments, emptiedAt the stage that first left no rows, ranEmpty
\* the stages that ran on a table without rows.
VARIABLES df, pc, prev, last, exc, variants, emptiedAt, ranEmpty

vars == <<df, pc, prev, last, exc, variants, emptiedAt, ranEmpty>>

\* Largest number of rows of a loaded table.
MaxRows == 2

-----------------------------------------------------------------------------
(* Python values *)

None == [type |-> "none", v |-> 0]
NaN == [type |-> "nan", v |-> <<>>]
PyFloat(n) == [type |-> "float", v |-> n]
PyInt(n) == [type |-> "int", v |-> n]
PyStr(s) == [type |-> "str", v |-> s]

\* fixed-point image of the number n
Fx(n) == n * 10

\* bool(x) as used by "if x:" and "not x"
Truthy(x) ==
    CASE x.type = "none" -> FALSE
      [] x.type = "str" -> Len(x.v) > 0
      [] x.type \in {"float", "int"} -> x.v # 0
      [] OTHER -> TRUE

\* The numeric image used when an int is compared with a float.
NumVal(x) == IF x.type = "int" THEN Fx(x.v) ELSE x.v

\* a == b between an int and another Python value: numbers compare by value,
\* an int and a str are never equal.
PyEq(a, b) ==
    /\ a.type \in {"int", "float"}
    /\ b.type \in {"int", "float"}
    /\ NumVal(a) = NumVal(b)

\* a > b between floats; a comparison with NaN is False.
PyGt(a, b) ==
    /\ a.type \in {"int", "float"}
    /\ b.type \in {"int", "float"}
    /\ NumVal(a) > NumVal(b)

-----------------------------------------------------------------------------
(* Characters and strings *)

Digits == {"0", "1", "2", "3", "4", "5", "6", "7", "8", "9"}
DigitsDot == Digits \cup {"."}
Whitespace == {" "}

DigitVal(c) == CHOOSE n \in 0..9 : <<"0", "1", "2", "3", "4", "5", "6", "7", "8", "9">>[n + 1] = c

RECURSIVE DecVal(_)
DecVal(ds) ==
    IF ds = <<>> THEN 0
    ELSE DecVal(SubSeq(ds, 1, Len(ds) - 1)) * 10 + DigitVal(ds[Len(ds)])

\* lit occurs in s at position i
MatchAt(s, i, lit) ==
    /\ i + Len(lit) - 1 <= Len(s)
    /\ \A k \in 1..Len(lit) : s[i + k - 1] = lit[k]

\* "sub in s"
Contains(sub, s) == \E i \in 1..(Len(s) + 1) : MatchAt(s, i, sub)

\* s.startswith(p)
StartsWith(s, p) == MatchAt(s, 1, p)

\* s.split(sep) for a one-character separator
RECURSIVE Split(_, _)
Split(s, sep) ==
    LET hits == {i \in 1..Len(s) : s[i] = sep}
    IN  IF hits = {} THEN <<s>>
        ELSE LET i == CHOOSE j \in hits : \A k \in hits : j <= k
             IN  <<SubSeq(s, 1, i - 1)>> \o Split(SubSeq(s, i + 1, Len(s)), sep)

\* s.strip()
RECURSIVE Strip(_)
Strip(s) ==
    IF s = <<>> THEN s
    ELSE IF s[1] \in Whitespace THEN Strip(SubSeq(s, 2, Len(s)))
    ELSE IF s[Len(s)] \in Whitespace THEN Strip(SubSeq(s, 1, Len(s) - 1))
    ELSE s

\* re.search(lit + "([cls]+)", s).group(1): the leftmost place where lit is
\* followed by a character of cls, and the longest run of cls from there;
\* NaN when there is no such place.
ReSearch(s, lit, cls) ==
    LET n == Len(lit)
        hits == {i \in 1..Len(s) : MatchAt(s, i, lit) /\ i + n <= Len(s) /\ s[i + n] \in cls}
    IN  IF hits = {} THEN NaN
        ELSE LET i == CHOOSE j \in hits : \A k \in hits : j <= k
                 b == i + n
                 e == CHOOSE j \in b..Len(s) :
                        /\ \A k \in b..j : s[k] \in cls
                        /\ (j = Len(s) \/ s[j + 1] \notin cls)
             IN  PyStr(SubSeq(s, b, e))

\* int(s): optional sign and digits, surrounding whitespace ignored;
\* anything else is a ValueError.
ParseInt(s) ==
    LET t == Strip(s)
        signed == t # <<>> /\ t[1] \in {"+", "-"}
        ds == IF signed THEN SubSeq(t, 2, Len(t)) ELSE t
    IN  IF ds # <<>> /\ \A k \in 1..Len(ds) : ds[k] \in Digits
        THEN PyInt(IF signed /\ t[1] = "-" THEN 0 - DecVal(ds) ELSE DecVal(ds))
        ELSE [type |-> "ValueError", v |-> 0]

\* float(s) for a string of digits and dots: one dot at most and at least
\* one digit; anything else is a ValueError.
ParseFloat(s) ==
    LET dots == {i \in 1..Len(s) : s[i] = "."}
        ok == /\ \A k \in 1..Len(s) : s[k] \in DigitsDot
              /\ Cardinality(dots) <= 1
              /\ Len(s) > Cardinality(dots)
        d == IF dots = {} THEN Len(s) + 1 ELSE CHOOSE i \in dots : TRUE
        whole == SubSeq(s, 1, d - 1)
        frac == IF d < Len(s) THEN DigitVal(s[d + 1]) ELSE 0
    IN  IF ok THEN PyFloat(Fx(DecVal(whole)) + frac)
        ELSE [type |-> "ValueError", v |-> 0]

-----------------------------------------------------------------------------
(* pandas *)

\* Series.astype(float) on one element: NaN stays NaN.
AsFloat(x) == IF x.type = "nan" THEN NaN ELSE ParseFloat(x.v)

\* Series.astype(int) on one element: NaN cannot be converted.
AsInt(x) == IF x.type = "nan" THEN [type |-> "ValueError", v |-> 0] ELSE ParseInt(x.v)

\* Variant of Raises: the conversion also fails on a column without rows.
Raises_onEmpty(series) ==
    \/ Len(series) = 0
    \/ \E i \in 1..Len(series) : series[i].type = "ValueError"

\* A Series conversion raises when any element does.
Raises(series) == \E i \in 1..Len(series) : series[i].type = "ValueError"

\* df[mask]: the rows whose mask entry is True, in their order.
RECURSIVE BoolIndex(_, _)
BoolIndex(rows, mask) ==
    IF rows = <<>> THEN <<>>
    ELSE LET n == Len(rows)
             init == BoolIndex(SubSeq(rows, 1, n - 1), SubSeq(mask, 1, n - 1))
         IN  IF mask[n] THEN Append(init, rows[n]) ELSE init


-----------------------------------------------------------------------------
(* Literals of the source and of the modelled inputs *)

\* The depth threshold filter_dp falls back to.
DefaultDepth == 10

KeyDP == <<"D", "P", "=">>
KeyAF == <<"A", "F", "=">>
PatChr == <<"c", "h", "r">>
PrefixSample == <<"S", "A", "M", "P", "L", "E">>
GT11 == <<"1", "/", "1">>
GT10 == <<"1", "/", "0">>
GT01 == <<"0", "/", "1">>
GT00 == <<"0", "/", "0">>
SAMPLE1 == <<"S", "A", "M", "P", "L", "E", "1">>
SAMPLE2 == <<"S", "A", "M", "P", "L", "E", "2">>
CTRL == <<"C", "T", "R", "L">>
PASS == <<"P", "A", "S", "S">>
LowQual == <<"L", "o", "w", "Q", "u", "a", "l">>
q10 == <<"q", "1", "0">>

R25 == <<"2", "-", "5">>
R25s == <<" ", "2", " ", "-", " ", "5">>
Ra5 == <<"a", "-", "5">>
R123 == <<"1", "-", "2", "-", "3">>
IDP == <<"D", "P">>
IDPAF == <<"D", "P", ",", " ", "A", "F">>

Row(chrom, pos, flt, info, c1, c2, c3) ==
    [CHROM |-> chrom, POS |-> pos, FILTER |-> flt, INFO |-> info,
     cells |-> (SAMPLE1 :> PyStr(c1)) @@ (SAMPLE2 :> PyStr(c2)) @@ (CTRL :> PyStr(c3))]

\* The rows a loaded table is drawn from.
RowPool ==
    {Row(<<"c", "h", "r", "1">>, <<"2">>, <<"P", "A", "S", "S">>, <<"D", "P", "=", "1", "2", ";", "A", "F", "=", "0", ".", "5">>, <<"0", "/", "1", ":", "3">>, <<"1", "/", "1", ":", "4">>, <<"0", "/", "0">>),
     Row(<<"c", "h", "r", "2">>, <<"3">>, <<"P", "A", "S", "S">>, <<"D", "P", "=", "2", "0", ";", "A", "F", "=", "0", ".", "9">>, <<"0", "/", "0", ":", "4">>, <<".", "/", ".", ":", "0">>, <<"0", "/", "1">>),
     Row(<<"c", "h", "r", "2">>, <<"5">>, <<"L", "o", "w", "Q", "u", "a", "l">>, <<"A", "D", "P", "=", "3", "0", ";", "D", "P", "=", "5", ";", "A", "F", "=", "0", ".", "1">>, <<"1", "/", "1">>, <<"1", "/", "0", ":", "2">>, <<"1", "/", "1">>),
     Row(<<"c", "h", "r", "3">>, <<"4">>, <<"L", "o", "w", "Q", "u", "a", "l">>, <<"D", "P", "=", "7">>, <<"0", "/", "1", "/", "1", ":", "5">>, <<"0", "/", "1">>, <<".", "/", ".">>),
     Row(<<"c", "h", "r", "1">>, <<"3">>, <<"P", "A", "S", "S">>, <<"D", "P", "=", "1", "1", ";", "A", "F", "=", "1", ".", "2", ".", "3">>, <<"0", "/", "0">>, <<"0", "/", "0">>, <<"0", "/", "0">>),
     Row(<<"c", "h", "r", "X">>, <<"4">>, <<"P", "A", "S", "S">>, <<"D", "P", "=", "4", "0", ";", "A", "F", "=", "0", ".", "7">>, <<"1", "/", "1">>, <<"1", "/", "1">>, <<"1", "/", "1">>),
     Row(<<"c", "h", "r", "2">>, <<"x", "7">>, <<"L", "o", "w", "Q", "u", "a", "l">>, <<"D", "P", "=", "1", "5", ";", "A", "F", "=", "0", ".", "3">>, <<"1", "/", "1", "0">>, <<"0", "/", "0">>, <<"1", "/", "0">>),
     Row(<<"c", "h", "r", "3">>, <<"3">>, <<"P", "A", "S", "S">>, <<"A", "F", "=", "0", ".", "4">>, <<"1", "/", "0">>, <<"0", "/", "1">>, <<"0", "/", "0">>)}

-----------------------------------------------------------------------------
(* filteration.py: a filter takes the table d = [columns, rows] and its     *)
(* parameter and returns [exc, df]; exc names the exception that reaches    *)
(* the caller, "none" when the filter returns.  The verbosity flag only     *)
(* selects what is printed.                                                 *)

Returned(d, rows) == [exc |-> "none", df |-> [d EXCEPT !.rows = rows]]
Raised(d, e) == [exc |-> e, df |-> d]

\* The column of extracted values: df.<col>.str.extract(lit([cls]+))
Extract(rows, col, lit, cls) ==
    [i \in 1..Len(rows) |-> ReSearch(rows[i][col], lit, cls)]

filter_af(d, af_threshold) ==
    IF PyGt(af_threshold, PyInt(0)) \/ PyEq(af_threshold, PyInt(0))
    THEN IF PyGt(PyInt(1), af_threshold) \/ PyEq(PyInt(1), af_threshold)
         THEN LET ex == Extract(d.rows, "INFO", KeyAF, DigitsDot)
                  af == [i \in 1..Len(d.rows) |-> AsFloat(ex[i])]
              IN  IF Raises(af) THEN Raised(d, "ValueError")
                  ELSE Returned(d, BoolIndex(d.rows,
                           [i \in 1..Len(d.rows) |-> PyGt(af[i], af_threshold)]))
         ELSE Returned(d, d.rows)
    ELSE Returned(d, d.rows)

\* The threshold filter_dp compares with.
DpThreshold(dp_threshold) ==
    IF ~Truthy(dp_threshold) THEN PyInt(DefaultDepth)
    ELSE IF PyGt(PyInt(0), dp_threshold) THEN PyInt(DefaultDepth)
    ELSE dp_threshold

filter_dp(d, dp_threshold) ==
    LET t == DpThreshold(dp_threshold)
        ex == Extract(d.rows, "INFO", KeyDP, Digits)
        dp == [i \in 1..Len(d.rows) |-> AsFloat(ex[i])]
    IN  IF Raises(dp) THEN Raised(d, "ValueError")
        ELSE Returned(d, BoolIndex(d.rows, [i \in 1..Len(d.rows) |-> PyGt(dp[i], t)]))

filter_chr(d, selected_chr) ==
    LET ex == Extract(d.rows, "CHROM", PatChr, Digits)
        chr == [i \in 1..Len(d.rows) |-> AsInt(ex[i])]
    IN  IF Raises(chr) THEN Raised(d, "ValueError")
        ELSE Returned(d, BoolIndex(d.rows,
                 [i \in 1..Len(d.rows) |-> PyEq(chr[i], selected_chr)]))

filter_position(d, selected_pos_range) ==
    LET toks == Split(selected_pos_range.v, "-")
        range == [k \in 1..Len(toks) |-> ParseInt(Strip(toks[k]))]
        pos == [i \in 1..Len(d.rows) |-> AsInt(PyStr(d.rows[i].POS))]
    IN  IF Raises(range) THEN Returned(d, d.rows)
        ELSE IF Len(range) = 2
        THEN IF Raises(pos) THEN Returned(d, d.rows)
             ELSE Returned(d, BoolIndex(d.rows,
                      [i \in 1..Len(d.rows) |->
                          PyGt(pos[i], range[1]) /\ PyGt(range[2], pos[i])]))
        ELSE Returned(d, d.rows)

\* Variant of include_filter: the comparison is inverted.
include_filter_ne(d, selected_val) ==
    Returned(d, BoolIndex(d.rows,
        [i \in 1..Len(d.rows) |-> d.rows[i].FILTER # selected_val.v]))

include_filter(d, selected_val) ==
    Returned(d, BoolIndex(d.rows,
        [i \in 1..Len(d.rows) |-> d.rows[i].FILTER = selected_val.v]))

exclude_filter(d, selected_val) ==
    Returned(d, BoolIndex(d.rows,
        [i \in 1..Len(d.rows) |-> d.rows[i].FILTER # selected_val.v]))

-----------------------------------------------------------------------------
(* zygosity.py: calc_zygosity *)

Elems(seq) == {seq[i] : i \in 1..Len(seq)}

\* x.split(':')[0] of a cell
FirstField(x) == Split(x.v, ":")[1]

\* applymap(lambda x: gt in x.split(':')[0]).sum().sum() over the columns cols
CountGT(rows, cols, gt) ==
    Cardinality({ic \in (1..Len(rows)) \X cols :
                    Contains(gt, FirstField(rows[ic[1]].cells[ic[2]]))})

\* df.drop(columns=drop)
DropColumns(d, drop) ==
    [columns |-> SelectSeq(d.columns, LAMBDA c : c \notin drop),
     rows |-> [i \in 1..Len(d.rows) |->
                 [d.rows[i] EXCEPT !.cells =
                     [c \in (DOMAIN d.rows[i].cells) \ drop |-> d.rows[i].cells[c]]]]]

\* df[key] = df.INFO.str.extract(key=([\d.]+))
AddInfoColumn(d, key) ==
    LET ex == Extract(d.rows, "INFO", key \o <<"=">>, DigitsDot)
    IN  [columns |-> IF key \in Elems(d.columns) THEN d.columns ELSE Append(d.columns, key),
         rows |-> [i \in 1..Len(d.rows) |->
                     [d.rows[i] EXCEPT !.cells =
                         [c \in (DOMAIN d.rows[i].cells) \cup {key} |->
                             IF c = key THEN ex[i] ELSE d.rows[i].cells[c]]]]]

RECURSIVE AddInfoColumns(_, _)
AddInfoColumns(d, keys) ==
    IF keys = <<>> THEN d
    ELSE AddInfoColumns(AddInfoColumn(d, Strip(Head(keys))), Tail(keys))

\* sample_name, when given, names a column of d.
calc_zygosity(d, include_info, sample_name) ==
    LET cols_to_drop == {c \in Elems(d.columns) :
                            StartsWith(c, PrefixSample) /\ c # sample_name.v}
        kept == IF Truthy(sample_name) THEN DropColumns(d, cols_to_drop) ELSE d
        counted == IF Truthy(sample_name) THEN {sample_name.v}
                   ELSE {c \in Elems(d.columns) : StartsWith(c, PrefixSample)}
        counts == [g \in {"g 1/1", "g 1/0", "g 0/1", "g 0/0"} |->
                     CountGT(kept.rows, counted,
                         CASE g = "g 1/1" -> GT11 [] g = "g 1/0" -> GT10
                           [] g = "g 0/1" -> GT01 [] OTHER -> GT00)]
    IN  [exc |-> "none",
         df |-> IF Truthy(include_info)
                THEN AddInfoColumns(kept, Split(include_info.v, ","))
                ELSE kept,
         variants |-> counts]

-----------------------------------------------------------------------------
(* zygosity.py: process_vcf_file, one action per stage.  The arguments are  *)
(* what argparse delivers: None for an option that was not given, a float   *)
(* for --depth and --allele-frequency, a str for the other options; the     *)
(* chromosome is also drawn as the int a direct caller may pass.            *)

DepthArgs == {None, PyFloat(Fx(0 - 1)), PyFloat(Fx(0)), PyFloat(Fx(5)), PyFloat(Fx(10)), PyFloat(Fx(50))}
AfArgs == {None, PyFloat(0 - 1), PyFloat(0), PyFloat(5), PyFloat(Fx(1)), PyFloat(11)}
ChrArgs == {None, PyStr(<<>>), PyStr(<<"2">>), PyInt(2)}
PosArgs == {None, PyStr(<<>>), PyStr(R25), PyStr(R25s), PyStr(Ra5), PyStr(R123)}
FilterArgs == {None, PyStr(<<>>), PyStr(PASS), PyStr(q10)}
SampleArgs == {None, PyStr(SAMPLE1), PyStr(CTRL)}
InfoArgs == {None, PyStr(IDP), PyStr(IDPAF)}

Tables == UNION {[1..n -> RowPool] : n \in 0..MaxRows}

Init ==
    /\ df \in {[columns |-> <<SAMPLE1, SAMPLE2, CTRL>>, rows |-> t] : t \in Tables}
    /\ prev = df
    /\ pc = "dp"
    /\ last = [stage |-> "load", arg |-> None, info |-> None, applied |-> FALSE]
    /\ exc = "none"
    /\ variants = <<>>
    /\ emptiedAt = "none"
    /\ ranEmpty = {}

\* One stage of the chain: when `run` holds the table becomes the filter's
\* result res on the table the stage before left, and an exception the filter
\* raises ends the call.
Stage(name, nxt, arg, run, res) ==
    /\ pc = name
    /\ LET r == IF run THEN res ELSE [exc |-> "none", df |-> df]
       IN  /\ df' = r.df
           /\ exc' = r.exc
           /\ pc' = IF r.exc = "none" THEN nxt ELSE "raised"
           /\ emptiedAt' = IF emptiedAt = "none" /\ r.exc = "none"
                              /\ Len(df.rows) > 0 /\ Len(r.df.rows) = 0
                           THEN name ELSE emptiedAt
    /\ prev' = df
    /\ last' = [stage |-> name, arg |-> arg, info |-> None, applied |-> run]
    /\ ranEmpty' = IF run /\ Len(df.rows) = 0 THEN ranEmpty \cup {name} ELSE ranEmpty
    /\ UNCHANGED variants

FilterDp == \E depth \in DepthArgs : Stage("dp", "af", depth, TRUE, filter_dp(df, depth))

FilterAf == \E af \in AfArgs : Stage("af", "chr", af, Truthy(af), filter_af(df, af))

FilterChr == \E chromosome \in ChrArgs : Stage("chr", "pos", chromosome, Truthy(chromosome), filter_chr(df, chromosome))

FilterPosition ==
    \E position_range \in PosArgs :
        Stage("pos", "inc", position_range, Truthy(position_range), filter_position(df, position_range))

IncludeFilter == \E v \in FilterArgs : Stage("inc", "exc", v, Truthy(v), include_filter(df, v))

ExcludeFilter == \E v \in FilterArgs : Stage("exc", "zyg", v, Truthy(v), exclude_filter(df, v))

CalcZygosity ==
    /\ pc = "zyg"
    /\ \E sample \in SampleArgs, include_info \in InfoArgs :
         LET r == calc_zygosity(df, include_info, sample)
         IN  /\ df' = r.df
             /\ variants' = r.variants
             /\ exc' = r.exc
             /\ last' = [stage |-> "zyg", arg |-> sample, info |-> include_info, applied |-> TRUE]
    /\ pc' = "done"
    /\ prev' = df
    /\ ranEmpty' = IF Len(df.rows) = 0 THEN ranEmpty \cup {"zyg"} ELSE ranEmpty
    /\ UNCHANGED emptiedAt

Next ==
    \/ FilterDp
    \/ FilterAf
    \/ FilterChr
    \/ FilterPosition
    \/ IncludeFilter
    \/ ExcludeFilter
    \/ CalcZygosity

Spec == Init /\ [][Next]_vars

-----------------------------------------------------------------------------
(* Vocabulary of the properties *)

OptionalStages == {"af", "chr", "pos", "inc", "exc"}

ZeroCounts == [g \in {"g 1/1", "g 1/0", "g 0/1", "g 0/0"} |-> 0]

\* The four classes with the key calc_zygosity files each under.
Classes == {<<"g 1/1", GT11>>, <<"g 1/0", GT10>>, <<"g 0/1", GT01>>, <<"g 0/0", GT00>>}

\* s is a non-empty string of digits, with an optional sign
IsIntToken(s) ==
    LET ds == IF s # <<>> /\ s[1] \in {"+", "-"} THEN SubSeq(s, 2, Len(s)) ELSE s
    IN  ds # <<>> /\ \A k \in 1..Len(ds) : ds[k] \in Digits

\* s is a number: digits with at most one decimal point
IsNumToken(s) ==
    /\ \A k \in 1..Len(s) : s[k] \in DigitsDot
    /\ Cardinality({k \in 1..Len(s) : s[k] = "."}) <= 1
    /\ \E k \in 1..Len(s) : s[k] \in Digits

\* The value of the ;-delimited token of info whose key is exactly key,
\* absent (NaN) when info has no such token.
TokenValue(info, key) ==
    LET toks == Split(info, ";")
        hits == {k \in 1..Len(toks) : MatchAt(toks[k], 1, key \o <<"=">>)}
    IN  IF hits = {} THEN NaN
        ELSE LET k == CHOOSE j \in hits : \A h \in hits : j <= h
             IN  PyStr(SubSeq(toks[k], Len(key) + 2, Len(toks[k])))

\* The number a row carries in its field, for the filter of a stage.
FieldOf(stage, r) ==
    CASE stage = "dp" -> ReSearch(r.INFO, KeyDP, Digits)
      [] stage = "af" -> ReSearch(r.INFO, KeyAF, DigitsDot)
      [] stage = "chr" -> ReSearch(r.CHROM, PatChr, Digits)
      [] OTHER -> PyStr(r.POS)

\* The field of the row can be read as the number the stage needs.
Parses(stage, r) ==
    LET f == FieldOf(stage, r)
    IN  /\ f.type = "str"
        /\ IF stage \in {"dp", "af"} THEN IsNumToken(f.v) ELSE IsIntToken(Strip(f.v))

\* The range string names two integers.
IsRange(rng) ==
    LET toks == Split(rng, "-")
    IN  Len(toks) = 2 /\ \A k \in 1..2 : IsIntToken(Strip(toks[k]))

\* C1: the chain runs Depth, AlleleFrequency, Chromosome, PositionRange,
\* IncludeFilterColumn, ExcludeFilterColumn in that order; Depth runs on every
\* invocation and each of the other five runs exactly when the caller supplied
\* its parameter, whatever the supplied value is.
C1_RunsExactlyWhenSupplied ==
    /\ last.stage = "dp" => last.applied
    /\ last.stage \in OptionalStages => (last.applied <=> last.arg.type # "none")

\* C2: filter_dp returns exactly the rows whose extracted DP is strictly
\* greater than the effective threshold, which is 10 when the parameter is
\* absent or negative and the parameter itself for every value >= 0.
C2_DepthEffectiveThreshold ==
    last.stage = "dp" =>
        LET t == last.arg
            eff == IF t.type = "none" \/ t.v < 0 THEN Fx(10) ELSE t.v
        IN  /\ exc = "none"
            /\ df.rows = SelectSeq(prev.rows,
                   LAMBDA r : Parses("dp", r) /\ ParseFloat(FieldOf("dp", r).v).v > eff)

\* C3: the count of each class is the number of (row, selected column) cells
\* whose first colon-delimited field is literally that class string; the
\* selected columns are the named column when a sample name is given and all
\* SAMPLE-prefixed columns otherwise.
C3_CountsLiteralMatches ==
    pc = "done" =>
        LET selected == IF last.arg.type = "str" THEN {last.arg.v}
                        ELSE {c \in Elems(prev.columns) : StartsWith(c, PrefixSample)}
        IN  \A cl \in Classes :
                variants[cl[1]] =
                    Cardinality({ic \in (1..Len(prev.rows)) \X selected :
                        FirstField(prev.rows[ic[1]].cells[ic[2]]) = cl[2]})

\* The predicate the filter of a stage applies to a row whose field parses.
KeepsRow(stage, arg, r) ==
    LET x == FieldOf(stage, r).v
    IN  CASE stage = "dp" -> PyGt(ParseFloat(x), DpThreshold(arg))
          [] stage = "af" -> PyGt(ParseFloat(x), arg)
          [] stage = "chr" -> PyEq(ParseInt(x), arg)
          [] OTHER -> /\ PyGt(ParseInt(x), ParseInt(Strip(Split(arg.v, "-")[1])))
                      /\ PyGt(ParseInt(Strip(Split(arg.v, "-")[2])), ParseInt(x))

\* The stage filters by its predicate rather than returning its input as a
\* documented no-op.
Filters(stage, arg) ==
    CASE stage = "af" -> 0 <= arg.v /\ arg.v <= Fx(1)
      [] stage = "pos" -> IsRange(arg.v)
      [] OTHER -> TRUE

\* C4: in the Depth, AlleleFrequency, Chromosome and PositionRange filters a
\* row whose numeric field cannot be extracted or parsed is left out of the
\* result, every other row is filtered by the normal predicate, and the
\* filter neither raises nor returns its input unchanged because of that row.
C4_BadRowExcludedOnly ==
    (last.stage \in {"dp", "af", "chr", "pos"} /\ last.applied) =>
        /\ exc = "none"
        /\ Filters(last.stage, last.arg) =>
               df.rows = SelectSeq(prev.rows,
                   LAMBDA r : Parses(last.stage, r) /\ KeepsRow(last.stage, last.arg, r))

\* Every CHROM of the table has the form chr<int>.
ChromWellFormed(rows) ==
    \A i \in 1..Len(rows) :
        /\ StartsWith(rows[i].CHROM, PatChr)
        /\ IsIntToken(SubSeq(rows[i].CHROM, Len(PatChr) + 1, Len(rows[i].CHROM)))
        /\ rows[i].CHROM[Len(PatChr) + 1] \in Digits

\* C5: with CHROM values of the form chr<int> and the chromosome number n
\* delivered by the --chromosome option, the table after the Chromosome stage
\* holds exactly the rows of the preceding stage whose CHROM is chr<n>, in
\* their order.
C5_ChromosomeFromCli ==
    (last.stage = "chr" /\ last.applied /\ last.arg.type = "str"
        /\ IsIntToken(last.arg.v) /\ ChromWellFormed(prev.rows)) =>
        /\ exc = "none"
        /\ df.rows = SelectSeq(prev.rows,
               LAMBDA r : ParseInt(SubSeq(r.CHROM, Len(PatChr) + 1, Len(r.CHROM))).v
                              = ParseInt(last.arg.v).v)

\* C6: filter_position(T, r) is the rows of T with start < POS < end, in
\* order, when r splits on '-' into exactly two integer tokens, and T itself
\* otherwise.
C6_PositionReference ==
    (last.stage = "pos" /\ last.applied) =>
        LET toks == Split(last.arg.v, "-")
        IN  /\ exc = "none"
            /\ df.rows =
                 IF IsRange(last.arg.v)
                 THEN SelectSeq(prev.rows,
                          LAMBDA r : /\ IsIntToken(Strip(r.POS))
                                     /\ ParseInt(Strip(toks[1])).v < ParseInt(r.POS).v
                                     /\ ParseInt(r.POS).v < ParseInt(Strip(toks[2])).v)
                 ELSE prev.rows

\* C7: once a stage has left the table without rows, every later filter that
\* runs and calc_zygosity run on the empty table without raising, each leaves
\* the table empty, and the counts hold the four classes with count 0; in
\* particular calc_zygosity on an empty table yields all four counts 0.
C7_EmptyTableFlowsThrough ==
    /\ emptiedAt # "none" =>
           /\ Len(df.rows) = 0
           /\ exc = "none"
           /\ pc = "done" => variants = ZeroCounts
    /\ (pc = "done" /\ Len(prev.rows) = 0) =>
           /\ exc = "none"
           /\ Len(df.rows) = 0
           /\ DOMAIN variants = {"g 1/1", "g 1/0", "g 0/1", "g 0/0"}
           /\ \A g \in DOMAIN variants : variants[g] = 0

\* C7 happens: the Depth stage emptied a table, the Chromosome, PositionRange,
\* Include and Exclude filters and calc_zygosity then ran on it.
C7_Witness ==
    /\ pc = "done"
    /\ emptiedAt = "dp"
    /\ {"chr", "pos", "inc", "exc", "zyg"} \subseteq ranEmpty
    /\ variants = ZeroCounts

\* C8: filter_af(T, a) is T itself when a < 0 or a > 1, and exactly the rows
\* of T, in order, whose extracted AF is strictly greater than a when
\* 0 <= a <= 1.
C8_AlleleFrequencyReference ==
    (last.stage = "af" /\ last.applied) =>
        /\ exc = "none"
        /\ df.rows =
             IF last.arg.v < 0 \/ last.arg.v > Fx(1) THEN prev.rows
             ELSE SelectSeq(prev.rows,
                      LAMBDA r : /\ Parses("af", r)
                                 /\ ParseFloat(FieldOf("af", r).v).v > last.arg.v)

\* C9: include_filter(T, v) is exactly the rows of T whose FILTER equals v,
\* in their order, and applying include_filter(., v) to it again changes
\* nothing.
C9_IncludeIdempotent ==
    /\ (last.stage = "inc" /\ last.applied) =>
           /\ exc = "none"
           /\ df.columns = prev.columns
           /\ df.rows = SelectSeq(prev.rows, LAMBDA r : r.FILTER = last.arg.v)
           /\ include_filter(df, last.arg) = [exc |-> "none", df |-> df]
    /\ \A v \in {a \in FilterArgs : a.type = "str"} :
           LET once == include_filter(df, v)
           IN  /\ once.exc = "none"
               /\ once.df.rows = SelectSeq(df.rows, LAMBDA r : r.FILTER = v.v)
               /\ include_filter(once.df, v) = once

\* C9 happens: the include filter ran and kept some rows and dropped others.
C9_Witness ==
    /\ last.stage = "inc"
    /\ last.applied
    /\ 0 < Len(df.rows)
    /\ Len(df.rows) < Len(prev.rows)

\* C10: the value extracted for a key (DP, AF, an include-info key) is the
\* value of the semicolon-delimited token whose key is exactly that key, and
\* is absent when INFO has no such token; a token with another key never
\* supplies it.
C10_ExtractsExactKey ==
    /\ last.stage = "dp" =>
           \A i \in 1..Len(prev.rows) :
               ReSearch(prev.rows[i].INFO, KeyDP, Digits) = TokenValue(prev.rows[i].INFO, <<"D", "P">>)
    /\ last.stage = "af" /\ last.applied =>
           \A i \in 1..Len(prev.rows) :
               ReSearch(prev.rows[i].INFO, KeyAF, DigitsDot) = TokenValue(prev.rows[i].INFO, <<"A", "F">>)
    /\ (last.stage = "zyg" /\ Truthy(last.info)) =>
           \A i \in 1..Len(df.rows) :
               \A key \in {Strip(k) : k \in Elems(Split(last.info.v, ","))} :
                   df.rows[i].cells[key] = TokenValue(df.rows[i].INFO, key)

====
